---- MODULE Spec2Model ----
(***************************************************************************)
(* Model of the AI assistant backend.                                      *)
(*                                                                         *)
(*  - the agent registry of src/src/index.ts: the aiAgentCache Map, the    *)
(*    pendingAiAgents Set, the three POST handlers and the idle sweep.     *)
(*    Every handler is cut at its awaits: one action is the synchronous    *)
(*    code that runs between two suspension points.                        *)
(*  - the AnthropicResponseHandler of src/src/index.ts (lines 304-385).    *)
(***************************************************************************)
EXTENDS Integers, Sequences, FiniteSets, TLC

VARIABLES
    aiAgentCache,     \* Map<string, AIAgent>: its entry list, in insertion order
    pendingAiAgents,  \* Set<string>
    agents,           \* every AIAgent object createAgent has returned so far
    reqs,             \* the HTTP requests: handler, position, locals, response
    sweeps,           \* the setInterval callbacks: position and locals
    now,              \* Date.now()
    tickDue,          \* the 5000 ms of setInterval have elapsed since the last tick
    message_text,     \* AnthropicResponseHandler.message_text
    chunk_counter,    \* AnthropicResponseHandler.chunk_counter
    runPc,            \* where run() stands
    event,            \* messageStreamEvent, the event the loop body is handling
    stream,           \* anthropicStream: the text deltas it has yielded, whether it has stopped or was aborted
    listening,        \* handleStopGenerating is attached to 'ai_indicator.stop'
    stops,            \* the running calls of handleStopGenerating
    updates,          \* the calls of chatClient.partialUpdateMessage, in call order
    events,           \* the calls of channel.sendEvent, in call order
    message           \* the chat message and the channel's indicator, as the chat server holds them

registryVars == <<aiAgentCache, pendingAiAgents, agents, reqs, sweeps, now, tickDue>>

relayVars == <<message_text, chunk_counter, runPc, event, stream, listening, stops,
               updates, events, message>>

vars == <<aiAgentCache, pendingAiAgents, agents, reqs, sweeps, now, tickDue,
          message_text, chunk_counter, runPc, event, stream, listening, stops,
          updates, events, message>>

----------------------------------------------------------------------------
(* Bounds of the model. *)

MaxReqs == 3          \* HTTP requests in one run
MaxSweeps == 2        \* sweep ticks that overlap, or have thrown
MaxClockSteps == 2    \* advances of the clock in one run
MaxChunks == 3        \* text deltas of a stream
MaxDeltaRun == 30     \* text deltas of a long run of deltas
MaxBlockStarts == 2   \* content_block_start events of a stream
MaxStops == 2         \* calls of handleStopGenerating that overlap
MaxStopSignals == 2   \* 'ai_indicator.stop' events in one run

(* Program constants. *)

inactivityThreshold == 480 * 60 * 1000
sweepInterval == 5000

----------------------------------------------------------------------------
(* The environment: channels, their members, the request bodies. *)

None == "none"
AgentIds == {"A1", "A2"}

\* A channel_id is modelled by its parts between ':' ; <<>> is a missing one.
Bodies == { <<>>, <<"c0">>, <<"c1">>, <<"messaging", "c2">> }

\* channelMembers.members.find(member => !!member.user?.isAIAgent)?.user.id
\* for the channel of that id; c0 has no AI member, and no channel is called
\* "messaging:c2".
ChannelAgent(chan) ==
    IF chan = <<"c1">> THEN "A1"
    ELSE IF chan = <<"c2">> THEN "A2"
    ELSE None

\* channel_id.includes(':') ? channel_id.split(':')[1] : channel_id
ChannelIdUpdated(channel_id) ==
    IF Len(channel_id) > 1 THEN <<channel_id[2]>> ELSE channel_id

----------------------------------------------------------------------------
(* The Map: a list of entries; delete empties an entry in place, set of a  *)
(* new key appends, and an iterator is an index into the list.             *)

Empty == "empty"
EmptyEntry == [key |-> Empty, value |-> 0]

CacheHas(cache, id) == \E k \in DOMAIN cache : cache[k].key = id

CacheGet(cache, id) ==
    IF CacheHas(cache, id)
    THEN cache[CHOOSE k \in DOMAIN cache : cache[k].key = id].value
    ELSE 0

CacheSet(cache, id, a) ==
    IF CacheHas(cache, id)
    THEN [k \in DOMAIN cache |->
            IF cache[k].key = id THEN [key |-> id, value |-> a] ELSE cache[k]]
    ELSE Append(cache, [key |-> id, value |-> a])

\* A delete that removes nothing.
CacheDeleteNothing(cache, id) == cache

CacheDelete(cache, id) ==
    [k \in DOMAIN cache |-> IF cache[k].key = id THEN EmptyEntry ELSE cache[k]]

CacheKeys(cache) == {cache[k].key : k \in DOMAIN cache} \ {Empty}

CacheSize(cache) == Cardinality(CacheKeys(cache))

----------------------------------------------------------------------------
(* The AIAgent objects. *)

NewAgent(id, t) ==
    [agent_id |-> id, state |-> "created", lastInteraction |-> t, disposeCalls |-> 0]

\* agent.dispose() is called: the call runs up to its first await.
DisposeCalled(ags, a) ==
    [ags EXCEPT ![a].disposeCalls = @ + 1]

\* agent.dispose() has resolved (ok) or rejected.
DisposeSettled(ags, a, ok) ==
    IF ok THEN [ags EXCEPT ![a].state = "disposed"] ELSE ags

\* now - aiAgent.getLastInteraction() > inactivityThreshold
Inactive(ags, a, t) == t - ags[a].lastInteraction > inactivityThreshold

----------------------------------------------------------------------------
(* Requests. *)

IdleReq ==
    [kind |-> None, pc |-> "idle", chan |-> <<>>, agent_id |-> None,
     agent |-> 0, status |-> 0]

ReqIds == 1 .. MaxReqs

\* Requests arrive one after the other; r is the next one to arrive.
Arrives(r) ==
    /\ reqs[r].pc = "idle"
    /\ IF r = 1 THEN TRUE ELSE reqs[r - 1].pc # "idle"

InFlight(r) == reqs[r].pc \notin {"idle", "done"}

\* res.status(code).json(...) ends the handler: of an answered request only
\* the status of the response is kept.
Respond(req, code) ==
    [IdleReq EXCEPT !.pc = "done", !.status = code]

\* if (!channel_id) 400 ; channel = serverClient.channel(...) ;
\* await channel.queryMembers({})
Receive(r, kind, channel_id, chan) ==
    reqs' = [reqs EXCEPT ![r] =
                IF channel_id = <<>>
                THEN Respond(@, 400)
                ELSE [@ EXCEPT !.kind = kind, !.pc = "queryMembers", !.chan = chan]]

----------------------------------------------------------------------------
(* POST /start-ai-agent *)

\* lines 44-71: validation, channel id, the call of queryMembers.
StartReceive(r, channel_id) ==
    /\ Arrives(r)
    /\ Receive(r, "start", channel_id, ChannelIdUpdated(channel_id))
    /\ UNCHANGED <<relayVars, aiAgentCache, pendingAiAgents, agents, sweeps, now, tickDue>>

\* lines 74-85: the AI member of the channel, the call of getAIAgentInfo.
StartMembers(r) ==
    /\ reqs[r].kind = "start" /\ reqs[r].pc = "queryMembers"
    /\ LET id == ChannelAgent(reqs[r].chan)
       IN  reqs' = [reqs EXCEPT ![r] =
                IF id = None
                THEN Respond(@, 400)
                ELSE [@ EXCEPT !.pc = "getAIAgentInfo", !.agent_id = id, !.chan = <<>>]]
    /\ UNCHANGED <<relayVars, aiAgentCache, pendingAiAgents, agents, sweeps, now, tickDue>>

\* The test of line 97 without its look at the pending set.
MayCreateUnlessRegistered(cache, pending, id) == ~CacheHas(cache, id)

\* line 97
MayCreate(cache, pending, id) == ~CacheHas(cache, id) /\ id \notin pending

\* A handler that ends without the delete of line 132.
StartFinallyKeepsMarker(pending, id) == pending

\* line 132, the finally block.
StartFinally(pending, id) == pending \ {id}

\* lines 96-104 and, on the else branch, lines 120-124 and 131-133.
StartCheck(r) ==
    /\ reqs[r].kind = "start" /\ reqs[r].pc = "getAIAgentInfo"
    /\ LET id == reqs[r].agent_id
       IN  IF MayCreate(aiAgentCache, pendingAiAgents, id)
           THEN /\ pendingAiAgents' = pendingAiAgents \cup {id}
                /\ reqs' = [reqs EXCEPT ![r].pc = "watch"]
           ELSE /\ pendingAiAgents' = StartFinally(pendingAiAgents, id)
                /\ reqs' = [reqs EXCEPT ![r] = Respond(@, 200)]
    /\ UNCHANGED <<relayVars, aiAgentCache, agents, sweeps, now, tickDue>>

\* lines 125-133: the catch and the finally block.
StartFailed(r) ==
    /\ reqs' = [reqs EXCEPT ![r] = Respond(@, 500)]
    /\ pendingAiAgents' = StartFinally(pendingAiAgents, reqs[r].agent_id)

\* line 104 resumes, line 106 calls createAgent.
StartWatched(r, ok) ==
    /\ reqs[r].kind = "start" /\ reqs[r].pc = "watch"
    /\ IF ok
       THEN /\ reqs' = [reqs EXCEPT ![r].pc = "createAgent"]
            /\ UNCHANGED pendingAiAgents
       ELSE StartFailed(r)
    /\ UNCHANGED <<relayVars, aiAgentCache, agents, sweeps, now, tickDue>>

\* line 106 resumes with the new agent, line 114 calls agent.init().
StartCreated(r, ok) ==
    /\ reqs[r].kind = "start" /\ reqs[r].pc = "createAgent"
    /\ IF ok
       THEN /\ agents' = Append(agents, NewAgent(reqs[r].agent_id, now))
            /\ reqs' = [reqs EXCEPT ![r].pc = "init", ![r].agent = Len(agents) + 1]
            /\ UNCHANGED pendingAiAgents
       ELSE /\ StartFailed(r)
            /\ UNCHANGED agents
    /\ UNCHANGED <<relayVars, aiAgentCache, sweeps, now, tickDue>>

\* lines 115-119: what the handler does with the initialised agent.
Register(cache, id, a) ==
    IF CacheHas(cache, id) THEN cache ELSE CacheSet(cache, id, a)

\* line 114 resumes; lines 115-119, then 124 and 131-133 unless dispose is awaited.
StartInited(r, ok) ==
    /\ reqs[r].kind = "start" /\ reqs[r].pc = "init"
    /\ LET id == reqs[r].agent_id
           a == reqs[r].agent
           live == [agents EXCEPT ![a].state = "live"]
       IN  IF ok
           THEN IF CacheHas(aiAgentCache, id)
                THEN /\ agents' = DisposeCalled(live, a)
                     /\ reqs' = [reqs EXCEPT ![r].pc = "dispose"]
                     /\ UNCHANGED <<aiAgentCache, pendingAiAgents>>
                ELSE /\ agents' = live
                     /\ aiAgentCache' = Register(aiAgentCache, id, a)
                     /\ reqs' = [reqs EXCEPT ![r] = Respond(@, 200)]
                     /\ pendingAiAgents' = StartFinally(pendingAiAgents, id)
           ELSE /\ agents' = [agents EXCEPT ![a].state = "failed"]
                /\ StartFailed(r)
                /\ UNCHANGED aiAgentCache
    /\ UNCHANGED <<relayVars, sweeps, now, tickDue>>

\* line 116 resumes; lines 124 and 131-133, or 125-133.
StartDisposed(r, ok) ==
    /\ reqs[r].kind = "start" /\ reqs[r].pc = "dispose"
    /\ agents' = DisposeSettled(agents, reqs[r].agent, ok)
    /\ IF ok
       THEN /\ reqs' = [reqs EXCEPT ![r] = Respond(@, 200)]
            /\ pendingAiAgents' = StartFinally(pendingAiAgents, reqs[r].agent_id)
       ELSE StartFailed(r)
    /\ UNCHANGED <<relayVars, aiAgentCache, sweeps, now, tickDue>>

----------------------------------------------------------------------------
(* POST /stop-ai-agent *)

\* lines 139-149: the channel id is used as it came.
StopReceive(r, channel_id) ==
    /\ Arrives(r)
    /\ Receive(r, "stop", channel_id, channel_id)
    /\ UNCHANGED <<relayVars, aiAgentCache, pendingAiAgents, agents, sweeps, now, tickDue>>

\* lines 151-169: the AI member, the cache lookup, the call of dispose.
StopMembers(r) ==
    /\ reqs[r].kind = "stop" /\ reqs[r].pc = "queryMembers"
    /\ LET id == ChannelAgent(reqs[r].chan)
           a == CacheGet(aiAgentCache, id)
       IN  IF id = None
           THEN /\ reqs' = [reqs EXCEPT ![r] = Respond(@, 400)]
                /\ UNCHANGED agents
           ELSE IF a # 0
           THEN /\ agents' = DisposeCalled(agents, a)
                /\ reqs' = [reqs EXCEPT ![r] =
                        [@ EXCEPT !.pc = "dispose", !.agent_id = id, !.agent = a,
                                  !.chan = <<>>]]
           ELSE /\ reqs' = [reqs EXCEPT ![r] = Respond(@, 200)]
                /\ UNCHANGED agents
    /\ UNCHANGED <<relayVars, aiAgentCache, pendingAiAgents, sweeps, now, tickDue>>

\* lines 166-169 after the await, or 170-175.
StopDisposed(r, ok) ==
    /\ reqs[r].kind = "stop" /\ reqs[r].pc = "dispose"
    /\ agents' = DisposeSettled(agents, reqs[r].agent, ok)
    /\ IF ok
       THEN /\ aiAgentCache' = CacheDelete(aiAgentCache, reqs[r].agent_id)
            /\ reqs' = [reqs EXCEPT ![r] = Respond(@, 200)]
       ELSE /\ reqs' = [reqs EXCEPT ![r] = Respond(@, 500)]
            /\ UNCHANGED aiAgentCache
    /\ UNCHANGED <<relayVars, pendingAiAgents, sweeps, now, tickDue>>

----------------------------------------------------------------------------
(* POST /new-ai-message *)

\* lines 189-210
MessageReceive(r, channel_id) ==
    /\ Arrives(r)
    /\ Receive(r, "message", channel_id, ChannelIdUpdated(channel_id))
    /\ UNCHANGED <<relayVars, aiAgentCache, pendingAiAgents, agents, sweeps, now, tickDue>>

\* lines 212-223
MessageMembers(r) ==
    /\ reqs[r].kind = "message" /\ reqs[r].pc = "queryMembers"
    /\ LET id == ChannelAgent(reqs[r].chan)
       IN  reqs' = [reqs EXCEPT ![r] =
                IF id = None
                THEN Respond(@, 400)
                ELSE [@ EXCEPT !.pc = "getAIAgentInfo", !.agent_id = id, !.chan = <<>>]]
    /\ UNCHANGED <<relayVars, aiAgentCache, pendingAiAgents, agents, sweeps, now, tickDue>>

\* lines 282-290: the catch and the finally block.
MessageFailed(r) ==
    /\ reqs' = [reqs EXCEPT ![r] = Respond(@, 500)]
    /\ pendingAiAgents' = pendingAiAgents \ {reqs[r].agent_id}

\* lines 281 and 288-290
MessageDone(r) ==
    /\ reqs' = [reqs EXCEPT ![r] = Respond(@, 200)]
    /\ pendingAiAgents' = pendingAiAgents \ {reqs[r].agent_id}

\* lines 223-259: agentInfo is null (found = FALSE) when the lookup failed, and
\* agentInfo.name then throws inside the try block.
MessageProfile(r, found) ==
    /\ reqs[r].kind = "message" /\ reqs[r].pc = "getAIAgentInfo"
    /\ IF found
       THEN /\ reqs' = [reqs EXCEPT ![r].pc = "create"]
            /\ UNCHANGED pendingAiAgents
       ELSE MessageFailed(r)
    /\ UNCHANGED <<relayVars, aiAgentCache, agents, sweeps, now, tickDue>>

\* lines 259-281: text = the response's first block is a non-empty text.
MessageCompleted(r, ok, text) ==
    /\ reqs[r].kind = "message" /\ reqs[r].pc = "create"
    /\ IF ~ok
       THEN MessageFailed(r)
       ELSE IF text
       THEN /\ reqs' = [reqs EXCEPT ![r].pc = "sendMessage"]
            /\ UNCHANGED pendingAiAgents
       ELSE MessageDone(r)
    /\ UNCHANGED <<relayVars, aiAgentCache, agents, sweeps, now, tickDue>>

\* line 274 resumes
MessageSent(r, ok) ==
    /\ reqs[r].kind = "message" /\ reqs[r].pc = "sendMessage"
    /\ IF ok THEN MessageDone(r) ELSE MessageFailed(r)
    /\ UNCHANGED <<relayVars, aiAgentCache, agents, sweeps, now, tickDue>>


----------------------------------------------------------------------------
(* The idle sweep, lines 22-31. *)

SweepIds == 1 .. MaxSweeps

IdleSweep == [pc |-> "idle", now |-> 0, idx |-> 0, userId |-> None, aiAgent |-> 0]

EndedSweep(pc) == [IdleSweep EXCEPT !.pc = pc]

\* The entries the for-of loop has still to visit from index idx on that pass
\* the test of line 25.
InactiveFrom(cache, ags, idx, t) ==
    {k \in DOMAIN cache :
        k >= idx /\ cache[k].key # Empty /\ Inactive(ags, cache[k].value, t)}

Min(S) == CHOOSE k \in S : \A j \in S : k <= j

\* The loop runs from index idx to its next await (line 27, where dispose has
\* been called) or to the end of the entry list.
SweepScan(s, cache, ags, idx, t) ==
    LET found == InactiveFrom(cache, ags, idx, t)
    IN  IF found = {}
        THEN /\ sweeps' = [sweeps EXCEPT ![s] = IdleSweep]
             /\ agents' = ags
        ELSE LET k == Min(found)
             IN  /\ sweeps' = [sweeps EXCEPT ![s] =
                        [pc |-> "dispose", now |-> t, idx |-> k,
                         userId |-> cache[k].key, aiAgent |-> cache[k].value]]
                 /\ agents' = DisposeCalled(ags, cache[k].value)

\* A tick of setInterval: line 23 and the loop up to its first await.
SweepTick(s) ==
    /\ tickDue
    /\ sweeps[s].pc = "idle"
    /\ \A q \in SweepIds : q < s => sweeps[q].pc # "idle"
    /\ tickDue' = FALSE
    /\ SweepScan(s, aiAgentCache, agents, 1, now)
    /\ UNCHANGED <<relayVars, aiAgentCache, pendingAiAgents, reqs, now>>

\* What the loop does when the await of line 27 has resolved: line 28.
SweepRemove(cache, userId) == CacheDelete(cache, userId)

\* Line 27 resumes. When dispose rejected, the callback's promise rejects and
\* the loop is left; otherwise line 28 and the rest of the loop.
SweepDisposed(s, ok) ==
    /\ sweeps[s].pc = "dispose"
    /\ IF ok
       THEN LET cache == SweepRemove(aiAgentCache, sweeps[s].userId)
            IN  /\ aiAgentCache' = cache
                /\ SweepScan(s, cache, DisposeSettled(agents, sweeps[s].aiAgent, TRUE),
                             sweeps[s].idx + 1, sweeps[s].now)
       ELSE /\ sweeps' = [sweeps EXCEPT ![s] = EndedSweep("threw")]
            /\ UNCHANGED <<aiAgentCache, agents>>
    /\ UNCHANGED <<relayVars, pendingAiAgents, reqs, now, tickDue>>

----------------------------------------------------------------------------
(* The clock and the agents' own activity. *)

ClockJumps == {sweepInterval, inactivityThreshold + sweepInterval}

ClockSteps(t) ==
    (t \div (inactivityThreshold + sweepInterval))
        + ((t % (inactivityThreshold + sweepInterval)) \div sweepInterval)

\* Time passes; every jump is long enough for a tick of the sweep to fall due.
\* The timer may fire late, so several due ticks show as one.
AdvanceClock(d) ==
    /\ ClockSteps(now) < MaxClockSteps
    /\ now' = now + d
    /\ tickDue' = TRUE
    /\ UNCHANGED <<relayVars, aiAgentCache, pendingAiAgents, agents, reqs, sweeps>>

\* An initialised agent handles a chat message and notes the time; dispose()
\* detaches the agent from the chat events as soon as it is called.
Interaction(a) ==
    /\ agents[a].state = "live"
    /\ agents[a].disposeCalls = 0
    /\ agents[a].lastInteraction < now
    /\ agents' = [agents EXCEPT ![a].lastInteraction = now]
    /\ UNCHANGED <<relayVars, aiAgentCache, pendingAiAgents, reqs, sweeps, now, tickDue>>

----------------------------------------------------------------------------

----------------------------------------------------------------------------
(* AnthropicResponseHandler: the stream events and the chat server.        *)

\* A text is the sequence of its characters.
DeltaTexts == { <<"a">>, <<"b", "c">> }

StreamEvent(type, delta_type, text) ==
    [type |-> type, delta_type |-> delta_type, text |-> text]

NoEvent == StreamEvent(None, None, <<>>)
BlockStart == StreamEvent("content_block_start", None, <<>>)
TextDelta(text) == StreamEvent("content_block_delta", "text_delta", text)
JsonDelta == StreamEvent("content_block_delta", "input_json_delta", <<>>)
BlockStop == StreamEvent("content_block_stop", None, <<>>)
MessageStop == StreamEvent("message_stop", None, <<>>)

StreamEvents ==
    {BlockStart, JsonDelta, BlockStop, MessageStop} \cup {TextDelta(t) : t \in DeltaTexts}

\* The events of a long run of deltas.
DeltaRunEvents == {TextDelta(<<"a">>), JsonDelta, MessageStop}

\* One call of partialUpdateMessage(this.message.id, {set: ...}).
Update(by, hasText, text, generating) ==
    [by |-> by, hasText |-> hasText, text |-> text, generating |-> generating]

\* One call of channel.sendEvent({type: ...}).
Event(by, type) == [by |-> by, type |-> type]

\* An update that replaces the text whether or not `set` names it.
ApplyUpdateReplacing(msg, u) ==
    [msg EXCEPT !.text = u.text, !.generating = u.generating]

\* The chat server applies a partial update: only the fields of `set` change.
ApplyUpdate(msg, u) ==
    IF u.hasText
    THEN [msg EXCEPT !.text = u.text, !.generating = u.generating]
    ELSE [msg EXCEPT !.generating = u.generating]

\* The update run() is awaiting: the last one handle has called for.
RunUpdate ==
    CHOOSE k \in DOMAIN updates :
        /\ updates[k].by # "stop"
        /\ \A j \in DOMAIN updates : j > k => updates[j].by = "stop"

Count(calls, by) == Cardinality({k \in DOMAIN calls : calls[k].by = by})

RECURSIVE Concat(_)
Concat(texts) == IF texts = <<>> THEN <<>> ELSE Head(texts) \o Concat(Tail(texts))

----------------------------------------------------------------------------
(* run, lines 317-325, and handle, lines 348-384. *)

\* The for-await loop takes the next event of the stream. A stream yields
\* nothing after message_stop; an aborted stream may still yield the events
\* it had read before the abort.
Yield(e, maxChunks) ==
    /\ runPc = "next"
    /\ ~stream.stopped
    /\ e.delta_type = "text_delta" => Len(stream.deltas) < maxChunks
    /\ e.type = "content_block_start" => Count(events, "run") < MaxBlockStarts
    /\ event' = e
    /\ stream' = [stream EXCEPT
            !.deltas = IF e.delta_type = "text_delta" THEN Append(@, e.text) ELSE @,
            !.stopped = (e = MessageStop)]
    /\ runPc' = "handle"
    /\ UNCHANGED <<registryVars, message_text, chunk_counter, listening, stops,
                   updates, events, message>>

\* The stream is exhausted, has failed or was aborted: the loop is left.
StreamEnds ==
    /\ runPc = "next"
    /\ runPc' = "ended"
    /\ UNCHANGED <<registryVars, message_text, chunk_counter, event, stream, listening,
                   stops, updates, events, message>>

\* The test of lines 365-366 with 16 in the place of 15.
FlushDueEverySixteenth(counter) == counter % 16 = 0 \/ (counter < 8 /\ counter % 2 # 0)

\* lines 365-366
FlushDue(counter) == counter % 15 = 0 \/ (counter < 8 /\ counter % 2 # 0)

\* The delta put in front of the text instead of behind it.
AccumulateInFront(text, delta) == delta \o text

\* The delta assigned to the text instead of appended to it.
AccumulateLatest(text, delta) == delta

\* line 362
Accumulate(text, delta) == text \o delta

\* A content_block_start case that sends the indicator for the first block
\* of the stream only.
HandleBlockStartOnce ==
    /\ runPc = "handle" /\ event.type = "content_block_start"
    /\ IF \E k \in DOMAIN events : events[k] = Event("run", "ai_indicator.update")
       THEN /\ runPc' = "next"
            /\ event' = NoEvent
            /\ UNCHANGED events
       ELSE /\ events' = Append(events, Event("run", "ai_indicator.update"))
            /\ runPc' = "indicator"
            /\ UNCHANGED event
    /\ UNCHANGED <<registryVars, message_text, chunk_counter, stream, listening,
                   stops, updates, message>>

\* lines 352-358
HandleBlockStart ==
    /\ runPc = "handle" /\ event.type = "content_block_start"
    /\ events' = Append(events, Event("run", "ai_indicator.update"))
    /\ runPc' = "indicator"
    /\ UNCHANGED <<registryVars, message_text, chunk_counter, event, stream, listening,
                   stops, updates, message>>

\* line 353 resumes; a rejection is caught by run, lines 321-323.
IndicatorSent(ok) ==
    /\ runPc = "indicator"
    /\ message' = IF ok THEN [message EXCEPT !.indicator = "AI_STATE_GENERATING"] ELSE message
    /\ runPc' = "next"
    /\ event' = NoEvent
    /\ UNCHANGED <<registryVars, message_text, chunk_counter, stream, listening, stops,
                   updates, events>>

\* lines 360-372
HandleDelta ==
    /\ runPc = "handle" /\ event.type = "content_block_delta"
    /\ IF event.delta_type # "text_delta"
       THEN /\ runPc' = "next"
            /\ event' = NoEvent
            /\ UNCHANGED <<message_text, chunk_counter, updates>>
       ELSE /\ message_text' = Accumulate(message_text, event.text)
            /\ chunk_counter' = chunk_counter + 1
            /\ IF FlushDue(chunk_counter')
               THEN /\ updates' = Append(updates, Update("flush", TRUE, message_text', TRUE))
                    /\ runPc' = "flush"
                    /\ UNCHANGED event
               ELSE /\ runPc' = "next"
                    /\ event' = NoEvent
                    /\ UNCHANGED updates
    /\ UNCHANGED <<registryVars, stream, listening, stops, events, message>>

\* The await of line 368 without the try/catch of run around it: a rejection
\* leaves the for-await loop.
FlushSettledUncaught(ok) ==
    /\ runPc = "flush"
    /\ message' = IF ok THEN ApplyUpdate(message, updates[RunUpdate]) ELSE message
    /\ runPc' = IF ok THEN "next" ELSE "ended"
    /\ event' = NoEvent
    /\ UNCHANGED <<registryVars, message_text, chunk_counter, stream, listening, stops,
                   updates, events>>

\* line 368 resumes; a rejection is caught by run.
FlushSettled(ok) ==
    /\ runPc = "flush"
    /\ message' = IF ok THEN ApplyUpdate(message, updates[RunUpdate]) ELSE message
    /\ runPc' = "next"
    /\ event' = NoEvent
    /\ UNCHANGED <<registryVars, message_text, chunk_counter, stream, listening, stops,
                   updates, events>>

\* lines 373-376
HandleMessageStop ==
    /\ runPc = "handle" /\ event.type = "message_stop"
    /\ updates' = Append(updates, Update("final", TRUE, message_text, FALSE))
    /\ runPc' = "final"
    /\ UNCHANGED <<registryVars, message_text, chunk_counter, event, stream, listening,
                   stops, events, message>>

\* line 374 resumes: lines 377-381, or the rejection is caught by run.
FinalSettled(ok) ==
    /\ runPc = "final"
    /\ IF ok
       THEN /\ message' = ApplyUpdate(message, updates[RunUpdate])
            /\ events' = Append(events, Event("run", "ai_indicator.clear"))
            /\ runPc' = "clear"
            /\ UNCHANGED event
       ELSE /\ runPc' = "next"
            /\ event' = NoEvent
            /\ UNCHANGED <<message, events>>
    /\ UNCHANGED <<registryVars, message_text, chunk_counter, stream, listening, stops,
                   updates>>

\* line 377 resumes
ClearSent(ok) ==
    /\ runPc = "clear"
    /\ message' = IF ok THEN [message EXCEPT !.indicator = "clear"] ELSE message
    /\ runPc' = "next"
    /\ event' = NoEvent
    /\ UNCHANGED <<registryVars, message_text, chunk_counter, stream, listening, stops,
                   updates, events>>

\* The switch has no case for the event.
HandleOther ==
    /\ runPc = "handle"
    /\ event.type \notin {"content_block_start", "content_block_delta", "message_stop"}
    /\ runPc' = "next"
    /\ event' = NoEvent
    /\ UNCHANGED <<registryVars, message_text, chunk_counter, stream, listening, stops,
                   updates, events, message>>

----------------------------------------------------------------------------
(* handleStopGenerating, lines 331-346, and dispose, lines 327-329. *)

StopIds == 1 .. MaxStops

IdleStop == [pc |-> "idle"]

\* An 'ai_indicator.stop' event reaches the listener: lines 332-340, up to the
\* await of partialUpdateMessage. this.anthropicStream is always set.
StopGenerating(c) ==
    /\ listening
    /\ stops[c].pc = "idle"
    /\ \A q \in StopIds : q < c => stops[q].pc # "idle"
    /\ Count(updates, "stop") < MaxStopSignals
    /\ stream' = [stream EXCEPT !.aborted = TRUE]
    /\ updates' = Append(updates, Update("stop", FALSE, <<>>, FALSE))
    /\ stops' = [stops EXCEPT ![c] = [pc |-> "update"]]
    /\ UNCHANGED <<registryVars, message_text, chunk_counter, runPc, event, listening,
                   events, message>>

\* line 338 resumes: lines 341-345, or the handler's promise rejects.
StopUpdated(c, ok) ==
    /\ stops[c].pc = "update"
    /\ IF ok
       THEN /\ message' = ApplyUpdate(message, Update("stop", FALSE, <<>>, FALSE))
            /\ events' = Append(events, Event("stop", "ai_indicator.clear"))
            /\ stops' = [stops EXCEPT ![c] = [pc |-> "clear"]]
       ELSE /\ stops' = [stops EXCEPT ![c] = IdleStop]
            /\ UNCHANGED <<message, events>>
    /\ UNCHANGED <<registryVars, message_text, chunk_counter, runPc, event, stream,
                   listening, updates>>

\* line 341 resumes
StopCleared(c, ok) ==
    /\ stops[c].pc = "clear"
    /\ message' = IF ok THEN [message EXCEPT !.indicator = "clear"] ELSE message
    /\ stops' = [stops EXCEPT ![c] = IdleStop]
    /\ UNCHANGED <<registryVars, message_text, chunk_counter, runPc, event, stream,
                   listening, updates, events>>

\* dispose, line 328
Dispose ==
    /\ listening
    /\ listening' = FALSE
    /\ UNCHANGED <<registryVars, message_text, chunk_counter, runPc, event, stream, stops,
                   updates, events, message>>

----------------------------------------------------------------------------

Init ==
    /\ aiAgentCache = <<>>
    /\ pendingAiAgents = {}
    /\ agents = <<>>
    /\ reqs = [r \in ReqIds |-> IdleReq]
    /\ sweeps = [s \in SweepIds |-> IdleSweep]
    /\ now = 0
    /\ tickDue = FALSE
    /\ message_text = <<>>
    /\ chunk_counter = 0
    /\ runPc = "next"
    /\ event = NoEvent
    /\ stream = [deltas |-> <<>>, stopped |-> FALSE, aborted |-> FALSE]
    /\ listening = TRUE
    /\ stops = [c \in StopIds |-> IdleStop]
    /\ updates = <<>>
    /\ events = <<>>
    /\ message = [text |-> <<>>, generating |-> FALSE, indicator |-> None]

Next ==
    \/ \E r \in ReqIds, channel_id \in Bodies : StartReceive(r, channel_id)
    \/ \E r \in ReqIds : StartMembers(r)
    \/ \E r \in ReqIds : StartCheck(r)
    \/ \E r \in ReqIds, ok \in BOOLEAN : StartWatched(r, ok)
    \/ \E r \in ReqIds, ok \in BOOLEAN : StartCreated(r, ok)
    \/ \E r \in ReqIds, ok \in BOOLEAN : StartInited(r, ok)
    \/ \E r \in ReqIds, ok \in BOOLEAN : StartDisposed(r, ok)
    \/ \E r \in ReqIds, channel_id \in Bodies : StopReceive(r, channel_id)
    \/ \E r \in ReqIds : StopMembers(r)
    \/ \E r \in ReqIds, ok \in BOOLEAN : StopDisposed(r, ok)
    \/ \E r \in ReqIds, channel_id \in Bodies : MessageReceive(r, channel_id)
    \/ \E r \in ReqIds : MessageMembers(r)
    \/ \E r \in ReqIds, found \in BOOLEAN : MessageProfile(r, found)
    \/ \E r \in ReqIds, ok \in BOOLEAN, text \in BOOLEAN : MessageCompleted(r, ok, text)
    \/ \E r \in ReqIds, ok \in BOOLEAN : MessageSent(r, ok)
    \/ \E s \in SweepIds : SweepTick(s)
    \/ \E s \in SweepIds, ok \in BOOLEAN : SweepDisposed(s, ok)
    \/ \E d \in ClockJumps : AdvanceClock(d)
    \/ \E a \in DOMAIN agents : Interaction(a)

Spec == Init /\ [][Next]_vars

\* One response handler on one stream.
NextRelay ==
    \/ \E e \in StreamEvents : Yield(e, MaxChunks)
    \/ StreamEnds
    \/ HandleBlockStart
    \/ \E ok \in BOOLEAN : IndicatorSent(ok)
    \/ HandleDelta
    \/ \E ok \in BOOLEAN : FlushSettled(ok)
    \/ HandleMessageStop
    \/ \E ok \in BOOLEAN : FinalSettled(ok)
    \/ \E ok \in BOOLEAN : ClearSent(ok)
    \/ HandleOther
    \/ \E c \in StopIds : StopGenerating(c)
    \/ \E c \in StopIds, ok \in BOOLEAN : StopUpdated(c, ok)
    \/ \E c \in StopIds, ok \in BOOLEAN : StopCleared(c, ok)
    \/ Dispose

SpecRelay == Init /\ [][NextRelay]_vars

\* One response handler on a long run of deltas that nobody stops.
NextDeltaRun ==
    \/ \E e \in DeltaRunEvents : Yield(e, MaxDeltaRun)
    \/ StreamEnds
    \/ HandleDelta
    \/ \E ok \in BOOLEAN : FlushSettled(ok)
    \/ HandleMessageStop
    \/ \E ok \in BOOLEAN : FinalSettled(ok)
    \/ \E ok \in BOOLEAN : ClearSent(ok)

SpecDeltaRun == Init /\ [][NextDeltaRun]_vars

\* Two start requests for one identity, the second arriving while the first
\* is being handled, and nothing else. With the marker of the first in place
\* no request reaches the await of line 116.
TwoStartBodies == { <<"c1">>, <<"messaging", "c2">> }

TargetOf(req) ==
    IF req.agent_id # None THEN req.agent_id ELSE ChannelAgent(req.chan)

NextTwoStarts ==
    \/ \E channel_id \in TwoStartBodies : StartReceive(1, channel_id)
    \/ \E channel_id \in TwoStartBodies :
            /\ InFlight(1)
            /\ ChannelAgent(ChannelIdUpdated(channel_id)) = TargetOf(reqs[1])
            /\ StartReceive(2, channel_id)
    \/ \E r \in 1 .. 2 : StartMembers(r)
    \/ \E r \in 1 .. 2 : StartCheck(r)
    \/ \E r \in 1 .. 2, ok \in BOOLEAN : StartWatched(r, ok)
    \/ \E r \in 1 .. 2, ok \in BOOLEAN : StartCreated(r, ok)
    \/ \E r \in 1 .. 2, ok \in BOOLEAN : StartInited(r, ok)

SpecTwoStarts == Init /\ [][NextTwoStarts]_vars

----------------------------------------------------------------------------
(* Notions the properties are stated in. *)

\* An agent is live from the return of init() to the return of dispose().
Live(a) == agents[a].state = "live"

LiveAgentsOf(id) == {a \in DOMAIN agents : agents[a].agent_id = id /\ Live(a)}

\* The start requests that have called the factory for id and await it.
Creating(id) ==
    {r \in ReqIds : /\ reqs[r].kind = "start"
                    /\ reqs[r].agent_id = id
                    /\ reqs[r].pc \in {"createAgent", "init"}}

\* The start requests that have passed the test of line 97 and are not done.
Owning(r) ==
    reqs[r].kind = "start" /\ reqs[r].pc \in {"watch", "createAgent", "init", "dispose"}

Answers(r, code) == reqs'[r].pc = "done" /\ reqs'[r].status = code

----------------------------------------------------------------------------
(* Properties. *)

\* C1: at every instant at most one live agent instance (initialised and not
\* yet torn down) exists per agent identity.
C1_OneLiveAgentPerIdentity ==
    \A id \in AgentIds : Cardinality(LiveAgentsOf(id)) <= 1

\* C2: for every identity at most one factory invocation (createAgent followed
\* by agent.init) is in progress at any instant.
C2_OneCreationInProgress ==
    \A id \in AgentIds : Cardinality(Creating(id)) <= 1

\* C3, as claimed: when both of two concurrent start requests for one identity
\* are answered, both were answered 'AI Agent started', the factory has
\* produced exactly one agent and exactly one instance is registered.
C3_TwoStartsBothStarted ==
    (reqs[1].pc = "done" /\ reqs[2].pc = "done")
        => /\ reqs[1].status = 200 /\ reqs[2].status = 200
           /\ Len(agents) = 1
           /\ CacheSize(aiAgentCache) = 1

\* C3, amended: of two concurrent start requests for one identity at most one
\* is creating at any instant and none has to dispose of a duplicate; when
\* both are answered 'AI Agent started', the factory was invoked exactly once
\* and exactly the live agent it returned is registered.
C3_TwoStartsSingleFlight ==
    /\ \A id \in AgentIds :
            Cardinality({r \in ReqIds : Owning(r) /\ reqs[r].agent_id = id}) <= 1
    /\ \A r \in ReqIds : reqs[r].pc # "dispose"
    /\ (reqs[1].pc = "done" /\ reqs[2].pc = "done"
            /\ reqs[1].status = 200 /\ reqs[2].status = 200)
        => /\ Len(agents) = 1
           /\ Live(1)
           /\ CacheSize(aiAgentCache) = 1
           /\ CacheGet(aiAgentCache, agents[1].agent_id) = 1

\* Both requests were answered 'AI Agent started' after one creation, the
\* second on the 'already started' path.
C3_Witness ==
    /\ reqs[1].pc = "done" /\ reqs[2].pc = "done"
    /\ reqs[1].status = 200 /\ reqs[2].status = 200
    /\ Len(agents) = 1
    /\ CacheSize(aiAgentCache) = 1

\* C4: no agent identity is both in pendingAiAgents and a key of aiAgentCache.
C4_PendingOrRegistered ==
    pendingAiAgents \cap CacheKeys(aiAgentCache) = {}

\* An identity is registered while a start request that marked it pending is
\* still creating an agent for it.
C4_Witness ==
    \E r \in ReqIds :
        /\ Owning(r)
        /\ CacheHas(aiAgentCache, reqs[r].agent_id)
        /\ reqs[r].agent_id \notin pendingAiAgents

\* C5: when a start request that marked its identity pending ends, the marker
\* is removed; on success the instance it created is registered; on failure
\* nothing is registered and the response is a 500.
C5_PendingClearedAndRegistered ==
    [][\A r \in ReqIds :
        (Owning(r) /\ reqs'[r].pc = "done")
            => /\ reqs[r].agent_id \notin pendingAiAgents'
               /\ reqs'[r].status \in {200, 500}
               /\ reqs'[r].status = 200
                    => CacheGet(aiAgentCache', reqs[r].agent_id) = reqs[r].agent
               /\ reqs'[r].status = 500
                    => aiAgentCache' = aiAgentCache]_vars

\* C6: a sweep tick whose teardowns all resolve leaves no registered instance
\* that was inactive at the tick's time, and the sweep removes from the
\* registry only instances that were inactive at the tick's time.
C6_IdleEviction ==
    [][\A s \in SweepIds :
        (sweeps[s].pc = "dispose" /\ sweeps'[s] # sweeps[s])
            => /\ sweeps'[s].pc = "idle"
                    => InactiveFrom(aiAgentCache', agents', 1, sweeps[s].now) = {}
               /\ \A k \in DOMAIN aiAgentCache :
                    (aiAgentCache[k].key # Empty /\ aiAgentCache'[k].key = Empty)
                        => Inactive(agents, aiAgentCache[k].value, sweeps[s].now)]_vars

\* C7: a teardown that throws during a sweep tick does not end the tick while
\* entries that are inactive at the tick's time remain to be visited.
C7_SweepSurvivesTeardownFailure ==
    [][\A s \in SweepIds :
        (sweeps[s].pc = "dispose" /\ sweeps'[s].pc = "threw")
            => InactiveFrom(aiAgentCache, agents, sweeps[s].idx + 1, sweeps[s].now) = {}]_vars

\* The steps of a stop request: the lookup, and the return of dispose().
StopLooksUp(r) ==
    /\ reqs[r].kind = "stop" /\ reqs[r].pc = "queryMembers"
    /\ reqs'[r].pc # "queryMembers"
    /\ ChannelAgent(reqs[r].chan) # None

StopReturns(r) ==
    reqs[r].kind = "stop" /\ reqs[r].pc = "dispose" /\ reqs'[r].pc = "done"

\* What a stop request does at the lookup: it calls the teardown of the
\* registered instance, or, the identity not being registered, changes nothing
\* and answers success.
StopLookup(r) ==
    LET id == ChannelAgent(reqs[r].chan)
        a == CacheGet(aiAgentCache, id)
    IN  IF CacheHas(aiAgentCache, id)
        THEN /\ reqs'[r].pc = "dispose"
             /\ agents'[a].disposeCalls = agents[a].disposeCalls + 1
        ELSE /\ Answers(r, 200)
             /\ UNCHANGED <<aiAgentCache, pendingAiAgents, agents>>

\* C8, as claimed: a stop of a registered identity invokes the teardown and
\* removes the identity from the registry; a stop of an unregistered identity
\* is a no-op that answers success.
C8_StopRemoves ==
    [][\A r \in ReqIds :
        /\ StopLooksUp(r) => StopLookup(r)
        /\ StopReturns(r) => ~CacheHas(aiAgentCache', reqs[r].agent_id)]_vars

\* C8, amended: as C8, but the identity is removed only when the teardown
\* returns; when it throws the registry is left as it is and the answer is 500.
C8_StopRemovesUnlessTeardownThrows ==
    [][\A r \in ReqIds :
        /\ StopLooksUp(r) => StopLookup(r)
        /\ StopReturns(r)
            => \/ /\ Answers(r, 200)
                  /\ ~CacheHas(aiAgentCache', reqs[r].agent_id)
                  /\ agents'[reqs[r].agent].state = "disposed"
               \/ /\ Answers(r, 500)
                  /\ UNCHANGED <<aiAgentCache, agents>>]_vars

\* A stop request has torn down the only agent of an identity and removed it,
\* and a second stop request for the identity is about to look it up.
C8_Witness ==
    \E r \in ReqIds :
        /\ reqs[r].kind = "stop" /\ reqs[r].pc = "queryMembers"
        /\ ChannelAgent(reqs[r].chan) = "A1"
        /\ ~CacheHas(aiAgentCache, "A1")
        /\ Len(agents) = 1
        /\ agents[1].state = "disposed" /\ agents[1].disposeCalls = 1
        /\ \A s \in SweepIds : sweeps[s].pc = "idle"
        /\ \A q \in ReqIds : q # r => reqs[q].pc = "done"

\* C9: the final update (generating = false) carries the concatenation of all
\* text deltas the stream has yielded, in order, and the chat message holds it
\* once the update is applied, whatever became of the intermediate flushes.
C9_FinalTextIsConcatenation ==
    /\ \A k \in DOMAIN updates :
            updates[k].by = "final"
                => /\ updates[k].hasText
                   /\ updates[k].text = Concat(stream.deltas)
                   /\ ~updates[k].generating
    /\ runPc = "clear"
            => message.text = Concat(stream.deltas) /\ ~message.generating

\* The final update is under way after three deltas whose two flushes failed.
C9_Witness ==
    /\ runPc = "final"
    /\ Len(stream.deltas) = 3
    /\ stream.deltas[1] # stream.deltas[2]
    /\ Count(updates, "flush") = 2
    /\ message.text = <<>>

\* C10: handling the n-th text delta issues an update with generating = true
\* iff n % 15 = 0 or (n < 8 and n odd): for n in 1..30 exactly at 1, 3, 5, 7,
\* 15 and 30; a delta that is no text delta changes neither the counter nor
\* the text and issues no update.
C10_FlushPolicy ==
    [][(runPc = "handle" /\ runPc' # "handle" /\ event.type = "content_block_delta")
        => IF event.delta_type = "text_delta"
           THEN LET n == chunk_counter'
                    flushed ==
                        /\ runPc' = "flush"
                        /\ updates' = Append(updates, Update("flush", TRUE, message_text', TRUE))
                IN  /\ n = chunk_counter + 1
                    /\ flushed \/ (runPc' = "next" /\ updates' = updates)
                    /\ flushed <=> (n % 15 = 0 \/ (n < 8 /\ n % 2 = 1))
                    /\ n \in 1 .. 30 => (flushed <=> n \in {1, 3, 5, 7, 15, 30})
           ELSE /\ runPc' = "next"
                /\ UNCHANGED <<chunk_counter, message_text, updates>>]_vars

\* The thirtieth text delta has been flushed, the sixth flush of the stream.
C10_Witness ==
    /\ chunk_counter = 30
    /\ runPc = "flush"
    /\ Count(updates, "flush") = 6

\* run() is awaiting a call that handle has made.
Awaiting == runPc \in {"indicator", "flush", "final", "clear"}

\* C11: an error raised while an event is handled (a rejected chat update or
\* indicator send) does not end the consumption of the stream: the loop goes
\* on to the next event (or, within message_stop, to the indicator-clear), the
\* accumulated text and the counter are kept, and whenever the loop is ready
\* for the next event the accumulated text is the concatenation of all the
\* text deltas the stream has delivered.
C11_HandlerErrorsAreCaught ==
    [][/\ (Awaiting /\ runPc' # runPc)
            => /\ runPc' \in {"next", "clear"}
               /\ runPc' = "clear" => runPc = "final"
               /\ message_text' = message_text
               /\ chunk_counter' = chunk_counter
       /\ runPc' = "next"
            => /\ message_text' = Concat(stream'.deltas)
               /\ chunk_counter' = Len(stream'.deltas)]_vars

\* The flush of the first delta was rejected (the chat message never got its
\* text) and the relay is handling the second delta of the stream.
C11_Witness ==
    /\ runPc = "handle"
    /\ event.delta_type = "text_delta"
    /\ Len(stream.deltas) = 2
    /\ Count(updates, "flush") = 1
    /\ message_text = stream.deltas[1]
    /\ message.text = <<>> /\ ~message.generating
    /\ ~stream.aborted

\* The session has settled: message_stop was handled to its end, the final
\* update and the indicator-clear were both delivered, and no call of
\* handleStopGenerating is under way.
Settled ==
    /\ stream.stopped
    /\ runPc \in {"next", "ended"}
    /\ \E k \in DOMAIN events : events[k] = Event("run", "ai_indicator.clear")
    /\ ~message.generating /\ message.indicator = "clear"
    /\ \A c \in StopIds : stops[c].pc = "idle"

\* C12: once the session has settled, a cancellation signal is a no-op: no
\* message update is issued, no indicator event is sent and the stream is not
\* aborted.
C12_StopAfterSettledIsNoOp ==
    [][Settled
        => /\ updates' = updates
           /\ events' = events
           /\ stream' = stream]_vars

\* A step of a call of handleStopGenerating.
StopStep == stops' # stops

\* The message as one completed cancellation, or the end of the stream, leaves
\* it: not generating, indicator cleared.
Stopped(msg) == ~msg.generating /\ msg.indicator = "clear"

\* C13: cancellation is idempotent on the message: no step of a cancellation
\* changes the published text; what it changes is generating, to false, and
\* the indicator, to cleared; and when the message is already in that state
\* (after an earlier cancellation or after the end of the stream) the steps
\* of a further cancellation leave the message exactly as it is.
C13_StopIsIdempotent ==
    [][StopStep
        => /\ message'.text = message.text
           /\ message'.generating => message.generating
           /\ message'.indicator \in {message.indicator, "clear"}
           /\ Stopped(message) => message' = message]_vars

\* Two cancellations have run to their end, one after the other, on a
\* message whose text an intermediate flush had published; the stream never
\* reached its end.
C13_Witness ==
    /\ Count(updates, "stop") = 2
    /\ Count(events, "stop") = 2
    /\ Count(updates, "final") = 0
    /\ \A c \in StopIds : stops[c].pc = "idle"
    /\ message.text # <<>>
    /\ Stopped(message)

\* C14: when the stream delivers message_stop, the relay issues a final update
\* with the whole accumulated text and generating = false, then, that update
\* having been awaited, sends the indicator-clear; from the message_stop on it
\* issues no update with generating = true.
C14_StreamEndSettles ==
    [][/\ (runPc = "handle" /\ event.type = "message_stop" /\ runPc' # runPc)
            => updates' = Append(updates,
                                 Update("final", TRUE, Concat(stream.deltas), FALSE))
       /\ (runPc = "final" /\ runPc' # runPc)
            => events' = Append(events, Event("run", "ai_indicator.clear"))
       /\ stream.stopped
            => \A k \in DOMAIN updates' : k > Len(updates) => ~updates'[k].generating]_vars

IsPrefix(s, t) == Len(s) <= Len(t) /\ SubSeq(t, 1, Len(s)) = s

\* C15: the accumulated text only grows at its end, and the texts of the
\* updates of one session are growing prefixes: the text of every update that
\* carries one is a prefix of the text of every later such update, so the
\* text of the chat message only grows at its end too.
C15_UpdatesArePrefixes ==
    [][/\ IsPrefix(message_text, message_text')
       /\ IsPrefix(message.text, message'.text)
       /\ \A j, k \in DOMAIN updates' :
            (j < k /\ updates'[j].hasText /\ updates'[k].hasText)
                => IsPrefix(updates'[j].text, updates'[k].text)]_vars

\* Three deltas were flushed after the first and the third, a cancellation
\* came in between, and the final update has been applied.
C15_Witness ==
    /\ Len(stream.deltas) = 3
    /\ Count(updates, "flush") = 2
    /\ Count(updates, "final") = 1
    /\ Count(updates, "stop") = 1
    /\ updates[1].text = stream.deltas[1]
    /\ updates[2].by = "stop"
    /\ message.text = Concat(stream.deltas)
    /\ Len(message.text) > Len(updates[1].text)

\* The 'generation started' signals the run loop has sent.
StartedSignals ==
    {k \in DOMAIN events : events[k] = Event("run", "ai_indicator.update")}

\* The run loop handles a content_block_start event, up to its await.
BlockStartStep ==
    runPc = "handle" /\ event.type = "content_block_start" /\ runPc' # runPc

\* C16, as claimed: the 'generation started' signal is sent for the first
\* content_block_start of a session only, and handling a content_block_start
\* changes neither the accumulated text nor the message body.
C16_IndicatorOnFirstBlockOnly ==
    [][/\ Cardinality(StartedSignals') <= 1
       /\ BlockStartStep
            => UNCHANGED <<message_text, chunk_counter, updates, message>>]_vars

\* C16, amended: the 'generation started' signal is sent for every
\* content_block_start, the first and the later ones alike; handling the event,
\* the await of the send included, issues no update and changes neither the
\* accumulated text nor the text and the generating flag of the message.
C16_IndicatorOnEveryBlock ==
    [][/\ BlockStartStep
            => /\ events' = Append(events, Event("run", "ai_indicator.update"))
               /\ runPc' = "indicator"
               /\ UNCHANGED <<message_text, chunk_counter, updates, message>>
       /\ (runPc = "indicator" /\ runPc' # runPc)
            => /\ message'.text = message.text
               /\ message'.generating = message.generating
               /\ UNCHANGED <<message_text, chunk_counter, updates, events>>]_vars

\* The signal of a second content_block_start is being sent, after a delta
\* of the first block was accumulated and published.
C16_Witness ==
    /\ runPc = "indicator"
    /\ Cardinality(StartedSignals) = 2
    /\ message_text # <<>>
    /\ message.text = message_text

\* The steps of a start request that lost the race: init() has returned and
\* the identity is registered already (line 115), and dispose() has settled.
LoserFound(r) ==
    reqs[r].kind = "start" /\ reqs[r].pc = "init" /\ reqs'[r].pc = "dispose"

LoserReturns(r) ==
    reqs[r].kind = "start" /\ reqs[r].pc = "dispose" /\ reqs'[r].pc = "done"

\* C17: a start request that has initialised an instance and finds another
\* one registered for the identity calls the teardown of its own instance and
\* leaves the registry as it is, with the other instance registered; when the
\* request ends, its instance is torn down and the answer is success.
C17_LoserIsDisposed ==
    [][\A r \in ReqIds :
        /\ LoserFound(r)
            => /\ agents'[reqs[r].agent].disposeCalls = 1
               /\ CacheHas(aiAgentCache, reqs[r].agent_id)
               /\ CacheGet(aiAgentCache, reqs[r].agent_id) # reqs[r].agent
               /\ aiAgentCache' = aiAgentCache
        /\ LoserReturns(r)
            => /\ agents'[reqs[r].agent].state = "disposed"
               /\ Answers(r, 200)
               /\ aiAgentCache' = aiAgentCache]_vars

\* The entries of the registry that a step empties.
Removed ==
    {k \in DOMAIN aiAgentCache :
        aiAgentCache[k].key # Empty /\ aiAgentCache'[k].key = Empty}

\* C18: whenever an entry is removed from aiAgentCache, the instance removed
\* is one whose teardown has completed, and every live instance whose teardown
\* nobody has invoked (neither a stop, nor the sweep, nor a start request that
\* lost a creation race) is registered under its identity.
C18_NoLiveInstanceLeaked ==
    [][/\ \A k \in Removed : agents'[aiAgentCache[k].value].state = "disposed"
       /\ \A a \in DOMAIN agents' :
            (agents'[a].state = "live" /\ agents'[a].disposeCalls = 0)
                => CacheGet(aiAgentCache', agents'[a].agent_id) = a]_vars

\* C19: the teardown of any one agent instance is invoked at most once,
\* whatever the interleaving of stop requests and sweep ticks.
C19_TeardownInvokedOnce ==
    \A a \in DOMAIN agents : agents[a].disposeCalls <= 1

\* A start request ends on the 'already started' branch of line 120.
AlreadyStarted(r) ==
    reqs[r].kind = "start" /\ reqs[r].pc = "getAIAgentInfo" /\ reqs'[r].pc = "done"

\* A /new-ai-message request takes a step after its validation.
MessageStep(r) == reqs[r].kind = "message" /\ reqs'[r] # reqs[r]

\* C20: a start request that takes the 'already started' branch and every
\* step of a /new-ai-message request leave pendingAiAgents and aiAgentCache
\* unchanged: a pending marker is removed only by the request that added it.
C20_MarkerRemovedByOwnerOnly ==
    [][\A r \in ReqIds :
        (AlreadyStarted(r) \/ MessageStep(r))
            => UNCHANGED <<pendingAiAgents, aiAgentCache>>]_vars

====
